---- MODULE Spec2Model ----
(***************************************************************************)
(* Retrieval-and-reranking pipeline of retrieve.py: query expansion,       *)
(* one hybrid store query per variant, deduplication by chunk id,          *)
(* cross-encoder reranking with an unranked fallback.                      *)
(*                                                                         *)
(* Python strings are sequences of one-character strings, so that          *)
(* split("\n") and strip() are computed and not assumed.  Floats are       *)
(* integers (only their order and the sentinel 0.0 matter).                *)
(***************************************************************************)
EXTENDS Integers, Sequences, FiniteSets, TLC

\* ---------------------------------------------------------------- bounds
\* Largest number of raw lines in a completion of the generative model.
MaxLines == 4
\* Largest number of chunks in semantic_chunks.json.
MaxChunks == 2

\* ------------------------------------------------------ program constants
\* retrieve.py:76  limit=25
SearchLimit == 25
\* retrieve.py:51  variations[:4]
MaxVariations == 4
\* retrieve.py:126 ranked_results[:8]
TopK == 8
\* retrieve.py:144 candidates[:5]
FallbackK == 5
\* retrieve.py:147 "score": 0.0
SentinelScore == 0

\* ------------------------------------------------------- generic helpers
Min(a, b) == IF a < b THEN a ELSE b

\* s[:n]
Take(s, n) == SubSeq(s, 1, Min(n, Len(s)))

RECURSIVE SeqsUpTo(_, _)
SeqsUpTo(S, n) ==
    IF n = 0 THEN {<<>>}
    ELSE LET shorter == SeqsUpTo(S, n - 1)
         IN  shorter \cup {Append(s, x) : s \in {t \in shorter : Len(t) = n - 1}, x \in S}

\* -------------------------------------------------------- python strings
Whitespace == {" ", "\n", "\t"}

RECURSIVE LStrip(_)
LStrip(s) ==
    IF s = <<>> THEN s
    ELSE IF Head(s) \in Whitespace THEN LStrip(Tail(s)) ELSE s

RECURSIVE RStrip(_)
RStrip(s) ==
    IF s = <<>> THEN s
    ELSE IF s[Len(s)] \in Whitespace THEN RStrip(SubSeq(s, 1, Len(s) - 1)) ELSE s

\* str.strip()
Strip(s) == RStrip(LStrip(s))

RECURSIVE SplitAcc(_, _)
SplitAcc(s, cur) ==
    IF s = <<>> THEN <<cur>>
    ELSE IF Head(s) = "\n" THEN <<cur>> \o SplitAcc(Tail(s), <<>>)
    ELSE SplitAcc(Tail(s), Append(cur, Head(s)))

\* str.split("\n"): always at least one piece
Split(s) == SplitAcc(s, <<>>)

RECURSIVE JoinLines(_)
JoinLines(ls) ==
    IF ls = <<>> THEN <<>>
    ELSE IF Len(ls) = 1 THEN ls[1]
    ELSE ls[1] \o <<"\n">> \o JoinLines(Tail(ls))

\* ------------------------------------------------------------ input sets
\* User queries: non-empty strings; the second one carries surrounding
\* blanks, which the pipeline never strips.
Queries == { <<"a">>, <<"b", " ">> }

\* Raw lines a completion is made of: blank, whitespace-only, and text
\* with and without surrounding blanks.
RawLines == { <<>>, <<" ">>, <<"a">>, <<" ", "b", " ">> }

\* The completions of the generative model.
Contents == { JoinLines(ls) : ls \in SeqsUpTo(RawLines, MaxLines) }

\* Every text that can be sent to the store.
Texts == Queries \cup ({ Strip(l) : l \in RawLines } \ {<<>>})

TextIdx(t) == IF t = <<"a">> THEN 0 ELSE IF t = <<"b">> THEN 1 ELSE 2

\* <<width, stride>> of the answer windows of the store families:
\* empty store, overlapping answers, disjoint answers.
StoreShapes == { <<0, 0>>, <<2, 1>>, <<3, 3>> }

ChunkIds == 1..9

Digits == <<"1", "2", "3", "4", "5", "6", "7", "8", "9">>

ChunkText(id) == <<"c", Digits[id]>>

ChunkTexts == { ChunkText(id) : id \in ChunkIds }

IdOfText(t) == CHOOSE id \in ChunkIds : ChunkText(id) = t

\* Sets of chunk ids whose payload has no usable text.
BadPayloadSets == { {}, {2}, ChunkIds }

\* metadata of a chunk as index.py stores it (the whole chunk dict); a bad
\* payload has an empty "content" (even id) or no "content" key (odd id).
Metadata(id, bad) ==
    IF id \notin bad THEN [content |-> ChunkText(id), source |-> "doc"]
    ELSE IF id % 2 = 0 THEN [content |-> <<>>, source |-> "doc"]
    ELSE [source |-> "doc"]

\* The scoring functions of the cross-encoder: increasing in the id,
\* with ties and negative values, decreasing in the id.
ScoreShapes == { "asc", "mod", "desc" }

ShapeScore(shape, id) ==
    IF shape = "asc" THEN id
    ELSE IF shape = "mod" THEN (id % 3) - 1
    ELSE 0 - id

\* ----------------------------------------------------------------- state
VARIABLES
    API_KEY,              \* retrieve.py:12, "" when the variable is unset
    store,                \* the collection: text of a query |-> ids of the hits
    bad,                  \* ids of the chunks with a malformed payload
    scorer,               \* the cross-encoder: text of a passage |-> score
    query_text,           \* argument of search_and_rerank
    pc,                   \* position in search_and_rerank
    completion,           \* history: outcome of the generative backend
    queries,              \* retrieve.py:63
    qi,                   \* position of the loop of retrieve.py:69 in queries
    queryLog,             \* history: the calls of client.query made so far
    all_results,          \* retrieve.py:66
    candidates,           \* retrieve.py:92
    passages,             \* retrieve.py:100
    cross_encoder_inputs, \* retrieve.py:101
    model,                \* history: how far the CrossEncoder got
    result,               \* list returned by search_and_rerank
    prev,                 \* history: ids returned by an earlier invocation
    exists,               \* the collection rag_collection_demo exists
    points,               \* the collection: point id |-> chunk stored under it
    indexed,              \* history: every (id, chunk) a run of index_data added
    last_run              \* history: how the latest run of index_data ended

world == <<API_KEY, store, bad, scorer, query_text, exists, points, indexed,
           last_run>>
locals == <<completion, queries, qi, queryLog, all_results, candidates,
            passages, cross_encoder_inputs, model, result>>
vars == <<API_KEY, store, bad, scorer, query_text, pc, completion, queries,
          qi, queryLog, all_results, candidates, passages,
          cross_encoder_inputs, model, result, prev, exists, points, indexed,
          last_run>>

NoCompletion == [kind |-> "none", content |-> <<>>]

\* ------------------------------------------------ generate_query_variations
RECURSIVE StripAll(_)
StripAll(ls) == IF ls = <<>> THEN <<>> ELSE <<Strip(Head(ls))>> \o StripAll(Tail(ls))

\* [line.strip() for line in content.split("\n") if line.strip()]
StrippedLines(content) == SelectSeq(StripAll(Split(content)), LAMBDA l : l # <<>>)

\* Mutant: the original query is appended instead of inserted at 0.
VariationsAppended(query, content) ==
    Take(StrippedLines(content) \o <<query>>, MaxVariations)

\* variations.insert(0, query); return variations[:4]
Variations(query, content) ==
    Take(<<query>> \o StrippedLines(content), MaxVariations)

\* What generate_query_variations returns for an outcome of the backend:
\* "nokey" (line 26), "failed" (caught at line 52), "ok" (line 51).
ExpansionResult(query, c) ==
    IF c.kind = "ok" THEN Variations(query, c.content) ELSE <<query>>

\* ---------------------------------------------------------------- store
\* The store's own score of the hit at rank k of the answer to q: falls
\* with the rank and is not the same for two queries.
StoreScore(q, k) == 10 * (TextIdx(q) + 1) - k

\* The QueryResponse at rank k of the answer of client.query to q.
StoreHit(q, k) ==
    [id |-> store[q][k],
     metadata |-> Metadata(store[q][k], bad),
     score |-> StoreScore(q, k)]

\* client.query(collection_name, query_text=q, limit=limit), when it succeeds
ClientQuery(q, limit) == [k \in 1..Min(limit, Len(store[q])) |-> StoreHit(q, k)]

\* hit.metadata.get("content", "")
Content(hit) ==
    IF "content" \in DOMAIN hit.metadata THEN hit.metadata.content ELSE <<>>

\* ---------------------------------------------------------- deduplication
\* Mutant: unique_results[hit.id] = hit without the test of line 89, the
\* key keeps its place in the dict and the latest hit replaces the value.
RECURSIVE DedupLastWins(_, _)
DedupLastWins(unique, hits) ==
    IF hits = <<>> THEN unique
    ELSE IF \E k \in 1..Len(unique) : unique[k].id = Head(hits).id
         THEN DedupLastWins(
                  [k \in 1..Len(unique) |->
                      IF unique[k].id = Head(hits).id THEN Head(hits) ELSE unique[k]],
                  Tail(hits))
         ELSE DedupLastWins(Append(unique, Head(hits)), Tail(hits))

RECURSIVE DedupInto(_, _)
DedupInto(unique, hits) ==
    IF hits = <<>> THEN unique
    ELSE IF \E k \in 1..Len(unique) : unique[k].id = Head(hits).id
         THEN DedupInto(unique, Tail(hits))
         ELSE DedupInto(Append(unique, Head(hits)), Tail(hits))

\* Mutant: every hit is kept.
NoDedup(hits) == hits

\* list(unique_results.values()): a dict keeps insertion order
Deduplicate(hits) == DedupInto(<<>>, hits)

\* ------------------------------------------------------ reranker's input
\* passages: the candidates whose text is not empty
Passages(cands) == SelectSeq(cands, LAMBDA h : Content(h) # <<>>)

\* Mutant: the pairs carry q, the loop variable of line 69, which holds
\* the last variant once the loop is over.
EncoderInputsLoopVar(query, cands) ==
    [k \in 1..Len(Passages(cands)) |->
        <<queries[Len(queries)], Content(Passages(cands)[k])>>]

\* cross_encoder_inputs: [query_text, text] per passage
EncoderInputs(query, cands) ==
    [k \in 1..Len(Passages(cands)) |-> <<query, Content(Passages(cands)[k])>>]

\* ---------------------------------------------------------------- rerank
\* model.predict(inputs): one score per pair
Predict(inputs) == [k \in 1..Len(inputs) |-> scorer[inputs[k][2]]]

\* zip(scores, passages)
Zip(scores, ps) ==
    [k \in 1..Min(Len(scores), Len(ps)) |-> [score |-> scores[k], hit |-> ps[k]]]

\* Mutant: x enters in front of the elements of equal score, as when an
\* ascending sort is reversed; ties come out in reverse input order.
RECURSIVE InsertDescUnstable(_, _)
InsertDescUnstable(sorted, x) ==
    IF sorted = <<>> THEN <<x>>
    ELSE IF Head(sorted).score > x.score
         THEN <<Head(sorted)>> \o InsertDescUnstable(Tail(sorted), x)
         ELSE <<x>> \o sorted

\* Position at which x enters a list sorted by score descending, behind
\* every element whose score is not smaller (the sort is stable).
RECURSIVE InsertDesc(_, _)
InsertDesc(sorted, x) ==
    IF sorted = <<>> THEN <<x>>
    ELSE IF Head(sorted).score >= x.score
         THEN <<Head(sorted)>> \o InsertDesc(Tail(sorted), x)
         ELSE <<x>> \o sorted

RECURSIVE SortInto(_, _)
SortInto(sorted, rest) ==
    IF rest = <<>> THEN sorted
    ELSE SortInto(InsertDesc(sorted, Head(rest)), Tail(rest))

\* Mutant: the pairs are left in the order of the passages.
NotSorted(pairs) == pairs

\* sorted(pairs, key=lambda x: x[0], reverse=True)
SortedDesc(pairs) == SortInto(<<>>, pairs)

\* One dict of the returned list; id is a history field (the dict of the
\* code holds score, text and meta only).
Entry(score, hit) ==
    [score |-> score, text |-> Content(hit), meta |-> hit.metadata, id |-> hit.id]

\* final_top_8
FinalTop(scores, ps) ==
    LET top == Take(SortedDesc(Zip(scores, ps)), TopK)
    IN  [k \in 1..Len(top) |-> Entry(top[k].score, top[k].hit)]

\* Mutant: the fallback is cut like the ranked list, at 8.
FallbackTopK(cands) ==
    LET top == Take(cands, TopK)
    IN  [k \in 1..Len(top) |-> Entry(SentinelScore, top[k])]

\* fallback
Fallback(cands) ==
    LET top == Take(cands, FallbackK)
    IN  [k \in 1..Len(top) |-> Entry(SentinelScore, top[k])]

ResultIds(res) == [k \in 1..Len(res) |-> res[k].id]

\* ------------------------------------------------------------------ Init
NoRun == [ran |-> FALSE, ids |-> <<>>]

\* The ids of the points the store answers with.
StoredIds == UNION { { store[t][k] : k \in 1..Len(store[t]) } : t \in Texts }

Init ==
    /\ API_KEY \in {"", "gsk_key"}
    /\ store \in { [t \in Texts |-> [k \in 1..sh[1] |-> sh[2] * TextIdx(t) + k]] :
                      sh \in StoreShapes }
    /\ bad \in BadPayloadSets
    /\ scorer \in { [t \in ChunkTexts |-> ShapeScore(shape, IdOfText(t))] :
                      shape \in ScoreShapes }
    /\ query_text \in Queries
    /\ pc = "call"
    /\ completion = NoCompletion
    /\ queries = <<>>
    /\ qi = 1
    /\ queryLog = <<>>
    /\ all_results = <<>>
    /\ candidates = <<>>
    /\ passages = <<>>
    /\ cross_encoder_inputs = <<>>
    /\ model = "none"
    /\ result = <<>>
    /\ prev = NoRun
    /\ exists = TRUE
    /\ points = [id \in StoredIds |-> Metadata(id, bad)]
    /\ indexed = {}
    /\ last_run = "none"

\* --------------------------------------------------------------- actions
\* retrieve.py:60  QdrantClient(path="qdrant_db"), outside every try: the
\* local store raises when its folder is locked or unreadable.
OpenClient ==
    /\ pc = "call"
    /\ \E ok \in BOOLEAN : pc' = IF ok THEN "expand" ELSE "raised"
    /\ UNCHANGED <<world, locals, prev>>

\* retrieve.py:63 and 20-54  generate_query_variations(query_text).
\* Groq(api_key=...) at line 30 is outside the try of line 41.
Expand ==
    /\ pc = "expand"
    /\ \/ /\ API_KEY = ""
          /\ completion' = [kind |-> "nokey", content |-> <<>>]
          /\ queries' = ExpansionResult(query_text, completion')
          /\ pc' = "expanded"
       \/ /\ API_KEY # ""
          /\ completion' = [kind |-> "noclient", content |-> <<>>]
          /\ queries' = queries
          /\ pc' = "raised"
       \/ /\ API_KEY # ""
          /\ completion' = [kind |-> "failed", content |-> <<>>]
          /\ queries' = ExpansionResult(query_text, completion')
          /\ pc' = "expanded"
       \/ /\ API_KEY # ""
          /\ \E content \in Contents :
                completion' = [kind |-> "ok", content |-> content]
          /\ queries' = ExpansionResult(query_text, completion')
          /\ pc' = "expanded"
    /\ UNCHANGED <<world, qi, queryLog, all_results, candidates, passages,
                   cross_encoder_inputs, model, result, prev>>

\* retrieve.py:66  all_results = []  (the text of the completion is out of
\* scope from here on; its kind is kept as history)
BeginSearch ==
    /\ pc = "expanded"
    /\ all_results' = <<>>
    /\ qi' = 1
    /\ pc' = "search"
    /\ completion' = [kind |-> completion.kind, content |-> <<>>]
    /\ UNCHANGED <<world, queries, queryLog, candidates, passages,
                   cross_encoder_inputs, model, result, prev>>

\* Mutant: one try around the whole loop, a failed query ends it.
QueryStoreAborting ==
    /\ pc = "search"
    /\ qi <= Len(queries)
    /\ \E ok \in BOOLEAN :
          /\ all_results' = IF ok
                            THEN all_results \o ClientQuery(queries[qi], SearchLimit)
                            ELSE all_results
          /\ queryLog' = Append(queryLog,
                [query_text |-> queries[qi], limit |-> SearchLimit, ok |-> ok])
          /\ qi' = IF ok THEN qi + 1 ELSE Len(queries) + 1
    /\ UNCHANGED <<world, pc, completion, queries, candidates, passages,
                   cross_encoder_inputs, model, result, prev>>

\* retrieve.py:69-80  one turn of the loop over queries
QueryStore ==
    /\ pc = "search"
    /\ qi <= Len(queries)
    /\ \E ok \in BOOLEAN :
          /\ all_results' = IF ok
                            THEN all_results \o ClientQuery(queries[qi], SearchLimit)
                            ELSE all_results
          /\ queryLog' = Append(queryLog,
                [query_text |-> queries[qi], limit |-> SearchLimit, ok |-> ok])
    /\ qi' = qi + 1
    /\ UNCHANGED <<world, pc, completion, queries, candidates, passages,
                   cross_encoder_inputs, model, result, prev>>

\* retrieve.py:84-97  deduplication and the return of [] without candidates
Dedup ==
    /\ pc = "search"
    /\ qi > Len(queries)
    /\ candidates' = Deduplicate(all_results)
    /\ IF candidates' = <<>>
       THEN /\ result' = <<>>
            /\ pc' = "returned"
       ELSE /\ result' = result
            /\ pc' = "prepare"
    /\ UNCHANGED <<world, completion, queries, qi, queryLog, all_results,
                   passages, cross_encoder_inputs, model, prev>>

\* retrieve.py:99-112
Prepare ==
    /\ pc = "prepare"
    /\ passages' = Passages(candidates)
    /\ cross_encoder_inputs' = EncoderInputs(query_text, candidates)
    /\ pc' = "rerank"
    /\ UNCHANGED <<world, completion, queries, qi, queryLog, all_results,
                   candidates, model, result, prev>>

\* retrieve.py:117-148  CrossEncoder(...), predict, sort, top 8; any
\* exception of the try block gives the fallback.
Rerank ==
    /\ pc = "rerank"
    /\ \/ /\ model' = "failed_to_load"
          /\ result' = Fallback(candidates)
       \/ /\ model' = "predict_raised"
          /\ result' = Fallback(candidates)
       \/ /\ model' = "predicted"
          /\ result' = FinalTop(Predict(cross_encoder_inputs), passages)
    /\ pc' = "returned"
    /\ UNCHANGED <<world, completion, queries, qi, queryLog, all_results,
                   candidates, passages, cross_encoder_inputs, prev>>

\* Every store query of the invocation succeeded and so did the scoring.
Clean ==
    /\ \A k \in 1..Len(queryLog) : queryLog[k].ok
    /\ model \in {"none", "predicted"}

\* The caller asks the same question again (app.py:104 catches what the
\* previous call raised); the store is not touched.  prev keeps the ids of
\* the latest invocation that returned with no store or scoring failure.
CallAgain ==
    /\ pc \in {"returned", "raised"}
    /\ prev' = IF pc = "returned" /\ Clean
               THEN [ran |-> TRUE, ids |-> ResultIds(result)]
               ELSE prev
    /\ pc' = "call"
    /\ completion' = NoCompletion
    /\ queries' = <<>>
    /\ qi' = 1
    /\ queryLog' = <<>>
    /\ all_results' = <<>>
    /\ candidates' = <<>>
    /\ passages' = <<>>
    /\ cross_encoder_inputs' = <<>>
    /\ model' = "none"
    /\ result' = <<>>
    /\ UNCHANGED world

Next ==
    \/ OpenClient
    \/ Expand
    \/ BeginSearch
    \/ QueryStore
    \/ Dedup
    \/ Prepare
    \/ Rerank
    \/ CallAgain

Spec == Init /\ [][Next]_vars

\* ---------------------------------------------------------------- claims
RerankFailed == model \in {"failed_to_load", "predict_raised"}

IdSet(hits) == { hits[k].id : k \in 1..Len(hits) }

Distinct(ids) == \A j, k \in 1..Len(ids) : j # k => ids[j] # ids[k]

\* C1: no exception ever propagates out of search_and_rerank, whatever the
\* backends do.
C1_NoExceptionEscapes == pc # "raised"

\* C2: the returned list has at most 8 elements and its scores are
\* non-increasing; when reranking failed all scores are 0.0.
C2_BoundedAndSorted ==
    pc = "returned" =>
        /\ Len(result) <= TopK
        /\ \A k \in 1..(Len(result) - 1) : result[k].score >= result[k + 1].score
        /\ RerankFailed => \A k \in 1..Len(result) : result[k].score = 0

C2_Witness ==
    /\ pc = "returned"
    /\ model = "predicted"
    /\ Len(passages) > TopK
    /\ Len(result) = TopK
    /\ result[1].score > result[TopK].score
    /\ result[1].id > result[TopK].id

\* C3: when the scoring model cannot be loaded or the scoring call raises,
\* the invocation still returns: the first min(5, n) of the n unique
\* candidates of the deduplication step, in that order, each with score 0.0.
C3_FallbackOnRerankFailure ==
    RerankFailed =>
        /\ pc = "returned"
        /\ Len(result) = Min(5, Len(candidates))
        /\ \A k \in 1..Len(result) :
              /\ result[k].id = candidates[k].id
              /\ result[k].score = 0

C3_Witness ==
    /\ pc = "returned"
    /\ model = "predict_raised"
    /\ Len(candidates) > 5
    /\ Len(result) = 5

\* C4: what generate_query_variations returns has the original query at
\* position 0 and 1 to 4 elements: the query, then at most 3 lines of the
\* completion in the order of the completion.
C4_VariantsShape ==
    pc = "expanded" =>
        /\ Len(queries) >= 1
        /\ Len(queries) <= 4
        /\ queries[1] = query_text
        /\ completion.kind = "ok" =>
              LET lines == StrippedLines(completion.content)
              IN  /\ Len(queries) = Min(4, 1 + Len(lines))
                  /\ \A k \in 2..Len(queries) : queries[k] = lines[k - 1]

C4_Witness ==
    /\ pc = "expanded"
    /\ completion.kind = "ok"
    /\ Len(StrippedLines(completion.content)) > 3
    /\ Len(queries) = 4
    /\ queries[2] # queries[3]

\* C5: when the expansion backend has no credential or fails (client
\* construction, request, malformed response), nothing is raised, the
\* variants are [query], exactly one store query is made, with the text of
\* the original query, and the invocation goes on.
C5_ExpansionFailureIsLocal ==
    completion.kind \in {"nokey", "noclient", "failed"} =>
        /\ pc # "raised"
        /\ queries = <<query_text>>
        /\ pc \in {"prepare", "rerank", "returned"} =>
              /\ Len(queryLog) = 1
              /\ queryLog[1].query_text = query_text

RECURSIVE Flatten(_)
Flatten(ss) == IF ss = <<>> THEN <<>> ELSE Head(ss) \o Flatten(Tail(ss))

\* The hits a successful store query for q contributes.
ExpectedHits(q) == [k \in 1..Len(store[q]) |-> StoreHit(q, k)]

\* C6: every variant is queried once, in order, with limit 25, whether or
\* not earlier queries failed; the raw collection is the concatenation, in
\* variant order, of the answers of the queries that succeeded.
C6_IndependentQueries ==
    pc \in {"search", "prepare", "rerank", "returned"} =>
        /\ Len(queryLog) = qi - 1
        /\ pc # "search" => Len(queryLog) = Len(queries)
        /\ \A k \in 1..Len(queryLog) :
              /\ queryLog[k].query_text = queries[k]
              /\ queryLog[k].limit = 25
        /\ all_results =
              Flatten([k \in 1..Len(queryLog) |->
                          IF queryLog[k].ok THEN ExpectedHits(queries[k]) ELSE <<>>])

C6_Witness ==
    /\ pc = "rerank"
    /\ Len(queryLog) = 3
    /\ ~queryLog[1].ok
    /\ queryLog[2].ok
    /\ ~queryLog[3].ok
    /\ queries[2] # queries[1]
    /\ all_results # <<>>

\* C7: the unique candidates hold every chunk id of the raw collection
\* exactly once, and no chunk id occurs twice in the returned list.
C7_UniqueIds ==
    /\ pc \in {"prepare", "rerank", "returned"} =>
          /\ IdSet(candidates) = IdSet(all_results)
          /\ Distinct([k \in 1..Len(candidates) |-> candidates[k].id])
    /\ pc = "returned" => Distinct(ResultIds(result))

C7_Witness ==
    /\ pc = "returned"
    /\ model = "predicted"
    /\ Len(all_results) > Len(candidates)
    /\ \E j, k \in 1..Len(all_results) :
          /\ j # k
          /\ all_results[j].id = all_results[k].id
          /\ \E r \in 1..Len(result) : result[r].id = all_results[j].id

\* C8: when no unique candidate with non-empty text exists, the invocation
\* returns [] and the scoring model is neither constructed nor invoked.
C8_NoTextNoModel ==
    (pc = "returned" /\ Passages(candidates) = <<>>) =>
        /\ result = <<>>
        /\ model = "none"

\* C9: with the store unchanged, an invocation returns the chunk ids the
\* earlier invocation with the same query returned, whatever the expansion
\* backend answered in the two (stated for the invocations in which every
\* store query and the scoring succeeded, where it fails all the same).
C9_Idempotent ==
    (pc = "returned" /\ Clean /\ prev.ran) => ResultIds(result) = prev.ids

\* C10: the scoring call gets one (query, text) pair per unique candidate
\* with non-empty text, in the order of the candidates; the query of each
\* pair is the original query and no text is empty.
C10_ScoringInput ==
    (pc = "rerank" \/ model \in {"predicted", "predict_raised"}) =>
        LET texts == SelectSeq([k \in 1..Len(candidates) |-> Content(candidates[k])],
                               LAMBDA t : t # <<>>)
        IN  /\ Len(cross_encoder_inputs) = Len(texts)
            /\ \A k \in 1..Len(texts) :
                  /\ cross_encoder_inputs[k][1] = query_text
                  /\ cross_encoder_inputs[k][2] = texts[k]
                  /\ cross_encoder_inputs[k][2] # <<>>

C10_Witness ==
    /\ model = "predicted"
    /\ Len(queries) > 1
    /\ queries[Len(queries)] # query_text
    /\ Len(cross_encoder_inputs) >= 1
    /\ Len(cross_encoder_inputs) < Len(candidates)

\* Position of the first hit for chunk id in the raw collection.
FirstPos(id) ==
    CHOOSE j \in 1..Len(all_results) :
        /\ all_results[j].id = id
        /\ \A i \in 1..(j - 1) : all_results[i].id # id

\* C11: the candidate kept for a chunk id is the first hit for that id in
\* the raw collection (the earliest variant's), never a later one, and the
\* unique candidates are in the order of those first hits.
C11_FirstOccurrenceWins ==
    pc \in {"prepare", "rerank", "returned"} =>
        /\ \A k \in 1..Len(candidates) :
              candidates[k] = all_results[FirstPos(candidates[k].id)]
        /\ \A k, l \in 1..Len(candidates) :
              k < l => FirstPos(candidates[k].id) < FirstPos(candidates[l].id)

C11_Witness ==
    /\ pc = "rerank"
    /\ Len(candidates) >= 3
    /\ \E j, k \in 1..Len(all_results) :
          /\ j < k
          /\ all_results[j].id = all_results[k].id
          /\ all_results[j] # all_results[k]
          /\ \E c \in 2..Len(candidates) : candidates[c] = all_results[j]

\* Position among the scored candidates of the one with chunk id.
PassagePos(id) == CHOOSE p \in 1..Len(passages) : passages[p].id = id

\* Score the model assigned to the scored candidate at position p.
AssignedScore(p) == scorer[cross_encoder_inputs[p][2]]

\* a comes before b in the order by score descending, ties by position.
RanksBefore(sa, pa, sb, pb) == sa > sb \/ (sa = sb /\ pa < pb)

C13_NoEmptyText ==
    pc = "returned" => \A k \in 1..Len(result) : result[k].text # <<>>

\* ------------------------------------------------------------ index_data
\* The chunks create_semantic_chunks can write to semantic_chunks.json.
IndexChunks ==
    { [content |-> ChunkText(i), source |-> d] : i \in 1..2, d \in {"A.pdf", "B.pdf"} }

\* The contents of semantic_chunks.json.
ChunkLists == SeqsUpTo(IndexChunks, MaxChunks)

\* index.py:55  ids=list(range(len(chunks)))
RangeIds(chunks) == 0..(Len(chunks) - 1)

\* index.py:51-56  client.add(documents, metadata, ids): the point of each
\* id is written, a point already stored under that id is replaced.
Add(pts, chunks) ==
    [id \in (DOMAIN pts) \cup RangeIds(chunks) |->
        IF id \in RangeIds(chunks) THEN chunks[id + 1] ELSE pts[id]]

\* A fresh qdrant_db folder; the retrieval side is at rest.
InitIndex ==
    /\ API_KEY = ""
    /\ store = [t \in Texts |-> <<>>]
    /\ bad = {}
    /\ scorer = [t \in ChunkTexts |-> ShapeScore("asc", IdOfText(t))]
    /\ query_text = <<"a">>
    /\ pc = "call"
    /\ completion = NoCompletion
    /\ queries = <<>>
    /\ qi = 1
    /\ queryLog = <<>>
    /\ all_results = <<>>
    /\ candidates = <<>>
    /\ passages = <<>>
    /\ cross_encoder_inputs = <<>>
    /\ model = "none"
    /\ result = <<>>
    /\ prev = NoRun
    /\ exists = FALSE
    /\ points = <<>>
    /\ indexed = {}
    /\ last_run = "none"

\* index.py:11-59  one run of index_data (app.py:67 after an upload).
IndexData ==
    /\ \/ /\ last_run' = "no_file"                        \* lines 15-17
          /\ UNCHANGED <<exists, points, indexed>>
       \/ /\ last_run' = "raised"                         \* line 26 raises
          /\ UNCHANGED <<exists, points, indexed>>
       \/ \E chunks \in ChunkLists :
             /\ exists' = TRUE                            \* lines 32-40
             /\ points' = Add(points, chunks)             \* lines 46-56
             /\ indexed' = indexed \cup
                   { [id |-> k - 1, chunk |-> chunks[k]] : k \in 1..Len(chunks) }
             /\ last_run' = IF exists THEN "appended" ELSE "created"
    /\ UNCHANGED <<API_KEY, store, bad, scorer, query_text, pc, locals, prev>>

NextIndex == IndexData

SpecIndex == InitIndex /\ [][NextIndex]_vars

\* C14: over any sequence of index_data runs every chunk a run added is
\* still stored under the id it was given: a run on the existing
\* collection appends, it overwrites no chunk and reuses no id.
C14_IdsStable ==
    \A r \in indexed : r.id \in DOMAIN points /\ points[r.id] = r.chunk

====
